---- MODULE Spec2Model ----
(***************************************************************************)
(* Model of kiro_gateway/anthropic_streaming.py: the translation of one    *)
(* decoded Kiro response into Anthropic Messages events                    *)
(* (stream_kiro_to_anthropic) and into one Anthropic Messages object       *)
(* (collect_anthropic_response).                                           *)
(*                                                                         *)
(* The streaming translation reads one upstream response chunk by chunk;   *)
(* what the decoder made of it is recorded in upstream (the decoded        *)
(* events), ending and deferred.  The collecting translation reads the     *)
(* same response with a parser of its own, so that the two translations    *)
(* of one input can be compared.                                           *)
(***************************************************************************)
EXTENDS Integers, Sequences, FiniteSets, TLC

(***************************************************************************)
(* Bounds of the model.                                                    *)
(***************************************************************************)
MaxChunks == 2      \* chunks read from the transport (empty and rejected ones too)
MaxChunkLen == 2    \* decoded events delivered by one feed()
MaxRecords == 3     \* decoded events of one response
MaxDeferred == 2    \* tool calls returned by get_tool_calls()

(***************************************************************************)
(* Input alphabet.  A content string is a sequence of tokens: a token is   *)
(* a piece of plain text or one bracket tool-call marker.                  *)
(***************************************************************************)
MarkerF == "[Called f with args: {\"q\": 1}]"
MarkerG == "[Called g with args: {oops]"
Markers == {MarkerF, MarkerG}

ArgsOk == "{\"q\": 1}"
ArgsEmpty == "{}"
ArgsBad == "{oops"

NoInput == {}

\* json.loads on the argument strings of the alphabet: JsonOk tells whether
\* the text decodes (no JSONDecodeError), JsonLoads gives the decoded mapping
\* as a set of key/value pairs.
JsonOk(s) == s \in {ArgsOk, ArgsEmpty}
JsonLoads(s) == IF s = ArgsOk THEN {<<"q", 1>>} ELSE NoInput

MarkerName(tok) == IF tok = MarkerF THEN "f" ELSE "g"
MarkerArgs(tok) == IF tok = MarkerF THEN ArgsOk ELSE ArgsBad

\* parse_bracket_tool_calls: one {name, arguments} per marker of the
\* content, in order; malformed argument text degrades to {}.
RECURSIVE parse_bracket_tool_calls(_)
parse_bracket_tool_calls(content) ==
    IF content = <<>> THEN <<>>
    ELSE LET tok == Head(content)
             rest == parse_bracket_tool_calls(Tail(content))
         IN IF tok \in Markers
            THEN <<[name |-> MarkerName(tok),
                    arguments |-> IF JsonOk(MarkerArgs(tok))
                                  THEN JsonLoads(MarkerArgs(tok))
                                  ELSE NoInput]>> \o rest
            ELSE rest

Contents ==
    { <<>>, <<"a">>, <<"b">>, <<MarkerF>>, <<"a", MarkerG, MarkerF>> }

ContentEvent(c) ==
    [type |-> "content", data |-> c, inputTokens |-> 0, outputTokens |-> 0]
MetadataEvent(i, o) ==
    [type |-> "metadata", data |-> <<>>, inputTokens |-> i, outputTokens |-> o]
OtherEvent ==
    [type |-> "context_usage", data |-> <<>>, inputTokens |-> 0, outputTokens |-> 0]

ParserEvents ==
    { ContentEvent(c) : c \in Contents }
        \cup { MetadataEvent(5, 2), MetadataEvent(3, 1) }
        \cup { OtherEvent }

\* What one parser.feed(chunk) can return.
FeedResults ==
    UNION { [1..n -> ParserEvents] : n \in 0..MaxChunkLen }

\* What parser.get_tool_calls() can return: tool calls in OpenAI format,
\* the arguments being JSON text.
ParserToolCall(n, s) == [name |-> n, arguments |-> s]
ParserToolCalls ==
    { ParserToolCall("f", ArgsOk), ParserToolCall("g", ArgsBad) }
DeferredResults ==
    UNION { [1..n -> ParserToolCalls] : n \in 0..MaxDeferred }

VARIABLES
    upstream,            \* the parser events decoded from the body so far
    ending,              \* "open", "eof", "transport_error" or "framing_error"
    deferred,            \* what get_tool_calls() returns at end-of-stream
    pc,                  \* position of stream_kiro_to_anthropic
    events,              \* parser events of the current chunk not yet handled
    chunks_read,         \* chunks the streaming translation has read
    yielded,             \* SSE events yielded so far
    message_started,
    accumulated_text,
    current_tool_index,
    tool_uses,
    input_tokens,
    output_tokens,
    stop_reason,
    c_pc,                \* position of collect_anthropic_response
    content_blocks,      \* its content list
    response,            \* the object it returned
    debug_logger,        \* whether the caller passed a debug_logger
    obs_pc,              \* position of a streaming run given a debug_logger
    obs_yielded,         \* SSE events that run has yielded on the same input
    obs_c_pc             \* position of a collecting run given a debug_logger

streamVars ==
    <<pc, events, chunks_read, yielded, message_started, accumulated_text,
      current_tool_index, tool_uses, input_tokens, output_tokens, stop_reason>>
collectVars ==
    <<c_pc, content_blocks, response>>
inputVars == <<upstream, ending, deferred>>
observedVars == <<obs_pc, obs_yielded, obs_c_pc>>
vars == <<inputVars, streamVars, collectVars, debug_logger, observedVars>>

----------------------------------------------------------------------------
NoResponse == [returned |-> FALSE, content |-> <<>>, stop_reason |-> "",
               input_tokens |-> 0, output_tokens |-> 0]

Start ==
    /\ upstream = <<>>
    /\ ending = "open"
    /\ deferred = <<>>
    /\ pc = "read"
    /\ events = <<>>
    /\ chunks_read = 0
    /\ yielded = <<>>
    /\ message_started = FALSE
    /\ accumulated_text = <<>>
    /\ current_tool_index = 0
    /\ tool_uses = <<>>
    /\ input_tokens = 0
    /\ output_tokens = 0
    /\ stop_reason = "None"
    /\ c_pc = "start"
    /\ content_blocks = <<>>
    /\ response = NoResponse
    /\ obs_pc = "run"
    /\ obs_yielded = <<>>
    /\ obs_c_pc = "start"

\* debug_logger = None, the default (lines 42 and 297).
Init == Start /\ debug_logger = FALSE

\* The caller passes a debug_logger.
InitObserved == Start /\ debug_logger = TRUE

----------------------------------------------------------------------------
(***************************************************************************)
(* SSE events (the JSON payload of each yielded frame).                    *)
(***************************************************************************)
Ev(t, i, b, id, n, inp, txt, sr, ot) ==
    [type |-> t, index |-> i, block |-> b, id |-> id, name |-> n,
     input |-> inp, text |-> txt, stop_reason |-> sr, output_tokens |-> ot]

MessageStartEv == Ev("message_start", -1, "", -1, "", NoInput, <<>>, "None", 0)
TextBlockStartEv == Ev("content_block_start", 0, "text", -1, "", NoInput, <<>>, "", 0)
TextDeltaEv(content) ==
    Ev("content_block_delta", 0, "text_delta", -1, "", NoInput, content, "", 0)
BlockStopEv(i) == Ev("content_block_stop", i, "", -1, "", NoInput, <<>>, "", 0)
ToolBlockStartEv(i, tu) ==
    Ev("content_block_start", i, "tool_use", tu.id, tu.name, tu.input, <<>>, "", 0)
MessageDeltaEv(sr, ot) == Ev("message_delta", -1, "", -1, "", NoInput, <<>>, sr, ot)
MessageStopEv == Ev("message_stop", -1, "", -1, "", NoInput, <<>>, "", 0)
ErrorEv == Ev("error", -1, "", -1, "", NoInput, <<>>, "", 0)

\* A tool_use content block; id is the counter suffix of the synthetic
\* identifier "toolu_<ms>_<suffix>".
ToolUse(suffix, n, inp) ==
    [type |-> "tool_use", id |-> suffix, name |-> n, input |-> inp, text |-> <<>>]
TextBlock(txt) ==
    [type |-> "text", id |-> -1, name |-> "", input |-> NoInput, text |-> txt]

----------------------------------------------------------------------------
(***************************************************************************)
(* stream_kiro_to_anthropic                                                *)
(***************************************************************************)

\* Lines 123-148: the tool_use blocks of the inline tool calls of one
\* content event, the first one numbered cti.
InlineToolUses(tcs, cti) ==
    [k \in 1..Len(tcs) |-> ToolUse(cti + k - 1, tcs[k].name, tcs[k].arguments)]

InlineBlockIndex(cti) == cti

\* The stop of every block carries the index of the first block of the event.
InlineToolFrames_StaleStop(tcs, cti) ==
    [j \in 1..(2 * Len(tcs)) |->
        LET k == (j + 1) \div 2
            tu == InlineToolUses(tcs, cti)[k]
        IN IF j % 2 = 1
           THEN ToolBlockStartEv(InlineBlockIndex(cti + k - 1), tu)
           ELSE BlockStopEv(InlineBlockIndex(cti))]

InlineToolFrames(tcs, cti) ==
    [j \in 1..(2 * Len(tcs)) |->
        LET k == (j + 1) \div 2
            tu == InlineToolUses(tcs, cti)[k]
        IN IF j % 2 = 1
           THEN ToolBlockStartEv(InlineBlockIndex(cti + k - 1), tu)
           ELSE BlockStopEv(InlineBlockIndex(cti + k - 1))]

\* message_start sent without looking at the message_started flag.
MessageStartFrames_Unguarded(started) == <<MessageStartEv>>

\* Lines 95-116.
MessageStartFrames(started) == IF started THEN <<>> ELSE <<MessageStartEv>>

\* The text block started again with every text record.
TextFrames_AlwaysStart(content, acc) ==
    IF content = <<>> THEN <<>>
    ELSE <<TextBlockStartEv, TextDeltaEv(content)>>

\* Lines 151-181.
TextFrames(content, acc) ==
    IF content = <<>> THEN <<>>
    ELSE (IF acc = <<>> THEN <<TextBlockStartEv>> ELSE <<>>)
             \o <<TextDeltaEv(content)>>

(***************************************************************************)
(* The optional debug_logger.  Given one, the translations call it inside  *)
(* the try block, before the frame is yielded, and nothing guards the      *)
(* call; it receives immutable bytes, so it acts on a run only by raising. *)
(* obs_pc, obs_yielded and obs_c_pc follow the run whose logger may raise, *)
(* in step with the run whose logger calls all return.                     *)
(***************************************************************************)

\* if debug_logger: (lines 75, 113, ..., 328) with no logger.
Unobserved == UNCHANGED <<debug_logger, observedVars>>

\* Every call of the logger made during the step returns.
ObserverReturns ==
    /\ IF obs_pc = "raised"
       THEN UNCHANGED <<obs_pc, obs_yielded>>
       ELSE /\ obs_yielded' = yielded'
            /\ obs_pc' = IF pc' = "raised" THEN "raised" ELSE "run"
    /\ UNCHANGED <<debug_logger, obs_c_pc>>

\* debug_logger.log_raw_chunk(chunk) raises (lines 75-76): the except
\* clause yields the error event and re-raises (lines 278-289).
RawLogRaises ==
    /\ obs_pc = "run"
    /\ obs_yielded' = yielded \o <<ErrorEv>>
    /\ obs_pc' = "raised"
    /\ UNCHANGED <<debug_logger, obs_c_pc>>

\* The frames passed to log_modified_chunk before they are yielded: all
\* but the tool-use frames of the loop (lines 134-146 make no call).
LoggedFrame(e) ==
    \/ pc # "events"
    \/ e.type \in {"message_start", "content_block_delta"}
    \/ e.type = "content_block_start" /\ e.block = "text"

\* debug_logger.log_modified_chunk(...) raises on one of the frames of the
\* step (lines 114, 164, 178, 198, 232, 242, 266, 275): the frames before
\* it are yielded, then the error event (lines 278-289).
ModifiedLogRaises ==
    /\ obs_pc = "run"
    /\ \E k \in (Len(yielded) + 1)..Len(yielded') :
          /\ LoggedFrame(yielded'[k])
          /\ obs_yielded' = SubSeq(yielded', 1, k - 1) \o <<ErrorEv>>
    /\ obs_pc' = "raised"
    /\ UNCHANGED <<debug_logger, obs_c_pc>>

\* A step of the stream that makes no call of the logger.
NoLogCall == IF debug_logger THEN ObserverReturns ELSE Unobserved

\* Lines 75-76.
LogRawChunk ==
    IF debug_logger THEN ObserverReturns \/ RawLogRaises ELSE Unobserved

\* Lines 113-114, 163-164, 177-178, 197-198, 231-232, 241-242, 265-266 and
\* 274-275.
LogModifiedChunks ==
    IF debug_logger THEN ObserverReturns \/ ModifiedLogRaises ELSE Unobserved

\* collect_anthropic_response calls log_raw_chunk for every non-empty chunk
\* (lines 328-329); a call that raises ends the function in the except
\* clause (lines 390-392).
LogCollectedChunks ==
    IF debug_logger
    THEN /\ \/ obs_c_pc' = c_pc'
            \/ /\ upstream # <<>> \/ ending = "framing_error"
               /\ obs_c_pc' = "raised"
         /\ UNCHANGED <<debug_logger, obs_pc, obs_yielded>>
    ELSE Unobserved

----------------------------------------------------------------------------

\* async for chunk in response.aiter_bytes(): a non-empty chunk is fed to
\* the parser (lines 70-79).
StreamReadChunk ==
    /\ pc = "read"
    /\ ending = "open"
    /\ chunks_read < MaxChunks
    /\ \E recs \in FeedResults :
          /\ Len(upstream) + Len(recs) <= MaxRecords
          /\ upstream' = upstream \o recs
          /\ events' = recs
          /\ pc' = IF recs = <<>> THEN "read" ELSE "events"
    /\ chunks_read' = chunks_read + 1
    /\ UNCHANGED <<ending, deferred, yielded, message_started, accumulated_text,
                   current_tool_index, tool_uses, input_tokens, output_tokens,
                   stop_reason, collectVars>>
    /\ LogRawChunk

\* if not chunk: continue (lines 71-72).
StreamSkipEmptyChunk ==
    /\ pc = "read"
    /\ ending = "open"
    /\ chunks_read < MaxChunks
    /\ chunks_read' = chunks_read + 1
    /\ UNCHANGED <<inputVars, pc, events, yielded, message_started,
                   accumulated_text, current_tool_index, tool_uses, input_tokens,
                   output_tokens, stop_reason, collectVars>>
    /\ NoLogCall

\* The events of a chunk taken from the back.
NextEvent_Last(evs) == evs[Len(evs)]

\* for event in events (line 87): the event the loop handles next.
NextEvent(evs) == Head(evs)

\* One iteration of "for event in events" (lines 87-188).
StreamHandleEvent ==
    /\ pc = "events"
    /\ LET event == NextEvent(events)
           content == event.data
           tool_calls == parse_bracket_tool_calls(content)
           start == MessageStartFrames(message_started)
       IN /\ events' = Tail(events)
          /\ pc' = IF Tail(events) = <<>> THEN "read" ELSE "events"
          /\ IF event.type = "content"
             THEN /\ message_started' = TRUE
                  /\ IF tool_calls # <<>>
                     THEN /\ yielded' = yielded \o start
                                 \o InlineToolFrames(tool_calls, current_tool_index)
                          /\ tool_uses' = tool_uses
                                 \o InlineToolUses(tool_calls, current_tool_index)
                          /\ current_tool_index' = current_tool_index + Len(tool_calls)
                          /\ UNCHANGED accumulated_text
                     ELSE /\ yielded' = yielded \o start
                                 \o TextFrames(content, accumulated_text)
                          /\ accumulated_text' = accumulated_text \o content
                          /\ UNCHANGED <<tool_uses, current_tool_index>>
                  /\ UNCHANGED <<input_tokens, output_tokens>>
             ELSE IF event.type = "metadata"
             THEN /\ input_tokens' = event.inputTokens
                  /\ output_tokens' = event.outputTokens
                  /\ UNCHANGED <<yielded, message_started, accumulated_text,
                                 tool_uses, current_tool_index>>
             ELSE UNCHANGED <<yielded, message_started, accumulated_text, tool_uses,
                              current_tool_index, input_tokens, output_tokens>>
    /\ UNCHANGED <<inputVars, chunks_read, stop_reason, collectVars>>
    /\ LogModifiedChunks

\* The except clause leaves the undecoded text in place of the mapping.
DeferredArguments_KeepsText(tool_call) ==
    IF JsonOk(tool_call.arguments) THEN JsonLoads(tool_call.arguments)
    ELSE {<<"raw", 0>>}

\* Lines 205-213: the arguments of a parser tool call.
DeferredArguments(tool_call) ==
    IF JsonOk(tool_call.arguments) THEN JsonLoads(tool_call.arguments) ELSE NoInput

\* The identifier suffix not advanced from one deferred tool call to the next.
DeferredToolUses_SameSuffix(calls, cti) ==
    [k \in 1..Len(calls) |->
        ToolUse(cti, calls[k].name, DeferredArguments(calls[k]))]

\* Lines 215-222.
DeferredToolUses(calls, cti) ==
    [k \in 1..Len(calls) |->
        ToolUse(cti + k - 1, calls[k].name, DeferredArguments(calls[k]))]

\* The index computed from the text offset alone.
DeferredBlockIndex_OffsetOnly(cti, acc) == IF acc # <<>> THEN 1 ELSE 0

\* Lines 227 and 238.
DeferredBlockIndex(cti, acc) == cti + (IF acc # <<>> THEN 1 ELSE 0)

\* Lines 224-245.
DeferredToolFrames(calls, cti, acc) ==
    [j \in 1..(2 * Len(calls)) |->
        LET k == (j + 1) \div 2
            tu == DeferredToolUses(calls, cti)[k]
        IN IF j % 2 = 1
           THEN ToolBlockStartEv(DeferredBlockIndex(cti + k - 1, acc), tu)
           ELSE BlockStopEv(DeferredBlockIndex(cti + k - 1, acc))]

\* Lines 190-199.
TextStopFrames(acc) == IF acc # <<>> THEN <<BlockStopEv(0)>> ELSE <<>>

\* The stop reason left at its default.
StreamStopReason_EndTurn(tus) == "end_turn"

\* Lines 247-251.
StreamStopReason(tus) == IF tus # <<>> THEN "tool_use" ELSE "end_turn"

\* message_stop sent before message_delta.
FinalFrames_Swapped(sr, ot) == <<MessageStopEv, MessageDeltaEv(sr, ot)>>

\* message_delta reports the initial output_tokens.
FinalFrames_ZeroTokens(sr, ot) == <<MessageDeltaEv(sr, 0), MessageStopEv>>

\* Lines 253-276.
FinalFrames(sr, ot) == <<MessageDeltaEv(sr, ot), MessageStopEv>>

\* The body ends: lines 190-276.
StreamEndOfInput ==
    /\ pc = "read"
    /\ ending = "open"
    /\ ending' = "eof"
    /\ \E parser_tool_calls \in DeferredResults :
          LET all_uses == tool_uses
                  \o DeferredToolUses(parser_tool_calls, current_tool_index)
          IN /\ deferred' = parser_tool_calls
             /\ tool_uses' = all_uses
             /\ current_tool_index' = current_tool_index + Len(parser_tool_calls)
             /\ stop_reason' = StreamStopReason(all_uses)
             /\ yielded' = yielded
                    \o TextStopFrames(accumulated_text)
                    \o DeferredToolFrames(parser_tool_calls, current_tool_index,
                                          accumulated_text)
                    \o FinalFrames(StreamStopReason(all_uses), output_tokens)
    /\ pc' = "done"
    /\ UNCHANGED <<upstream, events, chunks_read, message_started, accumulated_text,
                   input_tokens, output_tokens, collectVars>>
    /\ LogModifiedChunks

\* The failure re-raised without an error event.
ErrorFrames_Silent == <<>>

\* Lines 278-289.
ErrorFrames == <<ErrorEv>>

\* response.aiter_bytes() raises (lines 70, 278-289).
StreamReadFailure ==
    /\ pc = "read"
    /\ ending = "open"
    /\ ending' = "transport_error"
    /\ yielded' = yielded \o ErrorFrames
    /\ pc' = "raised"
    /\ UNCHANGED <<upstream, deferred, events, chunks_read, message_started,
                   accumulated_text, current_tool_index, tool_uses, input_tokens,
                   output_tokens, stop_reason, collectVars>>
    /\ NoLogCall

\* parser.feed(chunk) raises on a malformed frame (lines 79, 278-289).
StreamFeedFailure ==
    /\ pc = "read"
    /\ ending = "open"
    /\ chunks_read < MaxChunks
    /\ ending' = "framing_error"
    /\ chunks_read' = chunks_read + 1
    /\ yielded' = yielded \o ErrorFrames
    /\ pc' = "raised"
    /\ UNCHANGED <<upstream, deferred, events, message_started, accumulated_text,
                   current_tool_index, tool_uses, input_tokens, output_tokens,
                   stop_reason, collectVars>>
    /\ LogRawChunk

StreamNext ==
    \/ StreamReadChunk
    \/ StreamSkipEmptyChunk
    \/ StreamHandleEvent
    \/ StreamEndOfInput
    \/ StreamReadFailure
    \/ StreamFeedFailure

----------------------------------------------------------------------------
(***************************************************************************)
(* collect_anthropic_response                                              *)
(***************************************************************************)

\* Lines 350-357: the tool_use blocks of one content event appended to the
\* content list, each identifier suffixed with the length of the list.
RECURSIVE CollectToolUses(_, _)
CollectToolUses(blocks, tcs) ==
    IF tcs = <<>> THEN blocks
    ELSE CollectToolUses(
             Append(blocks, ToolUse(Len(blocks), Head(tcs).name, Head(tcs).arguments)),
             Tail(tcs))

\* The stop reason left unchanged by a content event with tool calls.
CollectStopReason_Kept(prev, tool_calls) == prev

\* Lines 349-358.
CollectStopReason(prev, tool_calls) ==
    IF tool_calls # <<>> THEN "tool_use" ELSE prev

\* Lines 340-366: the body of "for event in events" on the locals st.
CollectEvent(st, event) ==
    LET content == event.data
        tool_calls == parse_bracket_tool_calls(content)
    IN IF event.type = "content"
       THEN IF tool_calls # <<>>
            THEN [st EXCEPT !.content_blocks = CollectToolUses(@, tool_calls),
                            !.stop_reason = CollectStopReason(@, tool_calls)]
            ELSE [st EXCEPT !.accumulated_text = @ \o content]
       ELSE IF event.type = "metadata"
       THEN [st EXCEPT !.input_tokens = event.inputTokens,
                       !.output_tokens = event.outputTokens]
       ELSE st

\* Lines 323-366: the events of the chunks read, handled one after the other.
RECURSIVE CollectEvents(_, _)
CollectEvents(st, evs) ==
    IF evs = <<>> THEN st
    ELSE CollectEvents(CollectEvent(st, Head(evs)), Tail(evs))

\* Lines 316-320.
CollectLocals ==
    [accumulated_text |-> <<>>, content_blocks |-> <<>>, input_tokens |-> 0,
     output_tokens |-> 0, stop_reason |-> "end_turn"]

\* The text block appended after the tool-use blocks.
FinalContent_TextLast(blocks, acc) ==
    IF acc # <<>> THEN Append(blocks, TextBlock(acc)) ELSE blocks

\* Lines 368-373.
FinalContent(blocks, acc) ==
    IF acc # <<>> THEN <<TextBlock(acc)>> \o blocks ELSE blocks

\* collect_anthropic_response on a body that ends normally: lines 312-388.
CollectReturn ==
    /\ c_pc = "start"
    /\ ending = "eof"
    /\ LET st == CollectEvents(CollectLocals, upstream)
       IN /\ content_blocks' = FinalContent(st.content_blocks, st.accumulated_text)
          /\ response' = [returned |-> TRUE,
                          content |-> FinalContent(st.content_blocks,
                                                   st.accumulated_text),
                          stop_reason |-> st.stop_reason,
                          input_tokens |-> st.input_tokens,
                          output_tokens |-> st.output_tokens]
    /\ c_pc' = "done"
    /\ UNCHANGED <<inputVars, streamVars>>
    /\ LogCollectedChunks

\* The failure swallowed and the blocks accumulated so far returned.
CollectRaise_Partial ==
    /\ c_pc = "start"
    /\ ending \in {"transport_error", "framing_error"}
    /\ LET st == CollectEvents(CollectLocals, upstream)
       IN /\ content_blocks' = st.content_blocks
          /\ response' = [returned |-> TRUE, content |-> st.content_blocks,
                          stop_reason |-> st.stop_reason,
                          input_tokens |-> st.input_tokens,
                          output_tokens |-> st.output_tokens]
    /\ c_pc' = "done"
    /\ UNCHANGED <<inputVars, streamVars>>
    /\ LogCollectedChunks

\* collect_anthropic_response on a body whose read or decoding fails:
\* response.aiter_bytes() or parser.feed(chunk) raises, lines 322-332 and
\* 390-392.
CollectRaise ==
    /\ c_pc = "start"
    /\ ending \in {"transport_error", "framing_error"}
    /\ content_blocks' = CollectEvents(CollectLocals, upstream).content_blocks
    /\ c_pc' = "raised"
    /\ UNCHANGED <<inputVars, streamVars, response>>
    /\ LogCollectedChunks

CollectNext ==
    \/ CollectReturn
    \/ CollectRaise

Next == StreamNext \/ CollectNext

Spec == Init /\ [][Next]_vars

\* The same translations given a debug_logger.
SpecObserved == InitObserved /\ [][Next]_vars

----------------------------------------------------------------------------
(***************************************************************************)
(* Vocabulary of the properties.                                           *)
(***************************************************************************)
Positions(t) == { i \in DOMAIN yielded : yielded[i].type = t }
BodyKinds ==
    { "content_block_start", "content_block_delta", "content_block_stop",
      "message_delta", "message_stop" }
IsToolStart(e) == e.type = "content_block_start" /\ e.block = "tool_use"
IsTextStart(e) == e.type = "content_block_start" /\ e.block = "text"
IsToolBlock(b) == b.type = "tool_use"
ToolStarts == { i \in DOMAIN yielded : IsToolStart(yielded[i]) }
TypesOf(seq) == [i \in DOMAIN seq |-> seq[i].type]
NameInput(seq) == [i \in DOMAIN seq |-> <<seq[i].name, seq[i].input>>]

RECURSIVE ConcatText(_)
ConcatText(seq) ==
    IF seq = <<>> THEN <<>> ELSE Head(seq).text \o ConcatText(Tail(seq))

\* The decoded records the streaming translation has been given, and the
\* inline tool calls they hold, in discovery order.
Records == upstream
RECURSIVE InlineCalls(_)
InlineCalls(recs) ==
    IF recs = <<>> THEN <<>>
    ELSE (IF Head(recs).type = "content"
          THEN parse_bracket_tool_calls(Head(recs).data) ELSE <<>>)
             \o InlineCalls(Tail(recs))
ContentRecords == SelectSeq(Records, LAMBDA r : r.type = "content")
NoTextInInput == \A k \in DOMAIN ContentRecords : ContentRecords[k].data = <<>>
NoToolInInput == InlineCalls(Records) = <<>> /\ deferred = <<>>

----------------------------------------------------------------------------
\* C1: in streaming mode message_start is emitted at most once, and no
\* content_block_start, content_block_delta, content_block_stop,
\* message_delta or message_stop is emitted before it.
C1_MessageStartOnceAndFirst ==
    /\ Cardinality(Positions("message_start")) <= 1
    /\ \A i \in Positions("message_start") :
          \A j \in 1..(i - 1) : yielded[j].type \notin BodyKinds
    /\ message_started <=> Positions("message_start") # {}

C1_Witness ==
    /\ pc = "done"
    /\ Positions("message_start") = {1}
    /\ Len(ContentRecords) >= 2
    /\ deferred # <<>>

\* C2: when the input completes without failure, no ContentRecord carries
\* text and no tool call occurs, streaming mode emits exactly message_start,
\* message_delta, message_stop.
C2_EmptyResponseThreeEvents ==
    (pc = "done" /\ NoTextInInput /\ NoToolInInput)
        => TypesOf(yielded) = <<"message_start", "message_delta", "message_stop">>

\* C3: the indices of tool-use blocks are strictly increasing in discovery
\* order and never reused: in streaming mode each tool-use
\* content_block_start has an index greater than every earlier one, also
\* in a stream that aborts with an error; in collected mode the tool-use
\* blocks of the content list are the discovered tool calls, in order.
C3_ToolIndicesIncrease ==
    /\ \A i, j \in ToolStarts : i < j => yielded[i].index < yielded[j].index
    /\ response.returned =>
          NameInput(SelectSeq(response.content, IsToolBlock))
              = [k \in DOMAIN InlineCalls(Records) |->
                    <<InlineCalls(Records)[k].name, InlineCalls(Records)[k].arguments>>]

C3_Witness ==
    /\ pc = "done"
    /\ response.returned
    /\ Len(InlineCalls(Records)) >= 2
    /\ Len(deferred) >= 2
    /\ accumulated_text # <<>>

C3_WitnessAborted ==
    /\ pc = "raised"
    /\ Cardinality(ToolStarts) >= 2

\* C4: in a streaming translation that delivers non-empty text, every
\* tool-use block is started at an index greater than 0, and no two
\* content_block_start events carry the same index.
C4_TextOwnsIndexZero ==
    Positions("content_block_delta") # {} =>
        /\ \A i \in ToolStarts : yielded[i].index > 0
        /\ \A i, j \in Positions("content_block_start") :
              i # j => yielded[i].index # yielded[j].index

\* C5: in streaming mode every tool-use content_block_start, inline or
\* deferred, is immediately followed by the content_block_stop of the same
\* index, and no delta is emitted for a tool-use block: every delta is a
\* text_delta and none follows a tool-use start.
C5_ToolBlocksAtomic ==
    /\ \A i \in ToolStarts :
          /\ i + 1 \in DOMAIN yielded
          /\ yielded[i + 1].type = "content_block_stop"
          /\ yielded[i + 1].index = yielded[i].index
    /\ \A i \in Positions("content_block_delta") :
          /\ yielded[i].block = "text_delta"
          /\ i > 1
          /\ ~IsToolStart(yielded[i - 1])

C5_Witness ==
    /\ pc = "done"
    /\ Len(InlineCalls(Records)) >= 2
    /\ deferred # <<>>
    /\ accumulated_text # <<>>
    /\ Cardinality(ToolStarts) >= 3

\* C6: when record production fails (transport or decoder), before or
\* after message_start, streaming mode emits exactly one error event, as
\* the last event, with no message_delta or message_stop, and raises; a
\* translation that does not fail emits no error event.
C6_ErrorEventThenRaise ==
    /\ ending \in {"transport_error", "framing_error"} =>
          /\ pc = "raised"
          /\ yielded # <<>>
          /\ Positions("error") = {Len(yielded)}
          /\ Positions("message_delta") = {}
          /\ Positions("message_stop") = {}
    /\ ending \in {"open", "eof"} => (pc # "raised" /\ Positions("error") = {})

C6_Witness ==
    /\ pc = "raised"
    /\ ending = "framing_error"
    /\ message_started
    /\ Positions("content_block_delta") # {}
    /\ ToolStarts # {}

C6_WitnessBeforeStart ==
    /\ pc = "raised"
    /\ ending = "transport_error"
    /\ ~message_started

\* C7: a streaming translation whose input ends without failure ends with
\* exactly one message_delta immediately followed by exactly one
\* message_stop, the last event; no content-block event follows
\* message_delta.
C7_DeltaThenStopLast ==
    ending = "eof" =>
        /\ pc = "done"
        /\ Len(yielded) >= 2
        /\ Positions("message_delta") = {Len(yielded) - 1}
        /\ Positions("message_stop") = {Len(yielded)}

C7_Witness ==
    /\ pc = "done"
    /\ Positions("content_block_delta") # {}
    /\ deferred # <<>>
    /\ Len(yielded) >= 8

\* C8: the stop_reason of message_delta is "tool_use" if and only if some
\* tool-use block was emitted in the stream (inline or deferred), and
\* "end_turn" otherwise.
C8_StopReasonIffToolUse ==
    \A i \in Positions("message_delta") :
        /\ yielded[i].stop_reason \in {"tool_use", "end_turn"}
        /\ yielded[i].stop_reason = "tool_use" <=> ToolStarts # {}

C8_Witness ==
    /\ pc = "done"
    /\ InlineCalls(Records) = <<>>
    /\ deferred # <<>>
    /\ yielded[Len(yielded) - 1].stop_reason = "tool_use"

C8_WitnessEndTurn ==
    /\ pc = "done"
    /\ accumulated_text # <<>>
    /\ yielded[Len(yielded) - 1].stop_reason = "end_turn"

\* C9: for the same records and the same deferred tool calls, collected
\* mode and streaming mode produce the same tool-use blocks (name, input)
\* in the same order, the same text, and the same stop_reason.
C9_ModesAgree ==
    (pc = "done" /\ response.returned) =>
        /\ NameInput(SelectSeq(response.content, IsToolBlock))
              = NameInput(SelectSeq(yielded, IsToolStart))
        /\ ConcatText(SelectSeq(response.content, LAMBDA b : b.type = "text"))
              = ConcatText(SelectSeq(yielded,
                               LAMBDA e : e.type = "content_block_delta"))
        /\ response.stop_reason = yielded[Len(yielded) - 1].stop_reason

\* C10: the stop_reason collected mode returns is "tool_use" if and only
\* if the returned content list holds a tool-use block, and "end_turn"
\* otherwise.
C10_CollectedStopReason ==
    response.returned =>
        /\ response.stop_reason \in {"tool_use", "end_turn"}
        /\ response.stop_reason = "tool_use"
              <=> \E k \in DOMAIN response.content : IsToolBlock(response.content[k])

C10_Witness ==
    /\ response.returned
    /\ response.stop_reason = "tool_use"
    /\ Len(response.content) >= 3
    /\ response.content[1].type = "text"

C10_WitnessEndTurn ==
    /\ response.returned
    /\ response.stop_reason = "end_turn"
    /\ Len(response.content) = 1

\* The text the records carry: the contents without tool-call marker, in
\* arrival order.
RECURSIVE PlainText(_)
PlainText(recs) ==
    IF recs = <<>> THEN <<>>
    ELSE (IF Head(recs).type = "content"
             /\ \A k \in DOMAIN Head(recs).data : Head(recs).data[k] \notin Markers
          THEN Head(recs).data ELSE <<>>)
             \o PlainText(Tail(recs))
IsTextBlock(b) == b.type = "text"

\* C11: the content list collected mode returns holds at most one text
\* block; it is there exactly when some ContentRecord without tool-call
\* marker carried non-empty text, it is at position 0 whether the tool
\* calls came before or after the text, its text is the concatenation in
\* arrival order of the marker-free contents, and the tool-use blocks
\* follow it in discovery order.
C11_TextBlockFirst ==
    response.returned =>
        LET content == response.content
            text == PlainText(Records)
            calls == InlineCalls(Records)
            tools == IF text # <<>> THEN Tail(content) ELSE content
        IN /\ Len(SelectSeq(content, IsTextBlock)) = (IF text # <<>> THEN 1 ELSE 0)
           /\ text # <<>> => (content[1].type = "text" /\ content[1].text = text)
           /\ \A k \in DOMAIN tools : IsToolBlock(tools[k])
           /\ NameInput(tools)
                 = [k \in DOMAIN calls |-> <<calls[k].name, calls[k].arguments>>]

\* A tool call arrives before the text, and the text comes in two records.
C11_Witness ==
    /\ response.returned
    /\ Len(Records) = 3
    /\ Records[1] = ContentEvent(<<MarkerF>>)
    /\ Records[2] = ContentEvent(<<"b">>)
    /\ Records[3] = ContentEvent(<<"a">>)
    /\ response.content[1].text = <<"b", "a">>

InputFailed == ending \in {"transport_error", "framing_error"}

\* C12: when the transport or the decoding fails, collected mode returns no
\* response object, not even one with the blocks accumulated so far: the
\* call ends by raising, and once it has raised it does nothing more (no
\* retry).
C12_NoPartialResponse ==
    [][/\ (InputFailed' /\ c_pc' # "start")
            => (c_pc' = "raised" /\ response' = NoResponse)
       /\ c_pc = "raised" => UNCHANGED collectVars]_vars

\* The call raised although it had accumulated content blocks.
C12_Witness ==
    /\ c_pc = "raised"
    /\ content_blocks # <<>>
    /\ ~response.returned

ToolStartSeq == SelectSeq(yielded, IsToolStart)
Malformed(args) == ~JsonOk(args)

\* C13: a tool call whose argument text is not parseable as JSON still
\* yields a tool-use block, with the empty mapping as input; it causes no
\* error event and no raise, the tool calls after it are emitted as well
\* and the stream ends with message_delta, message_stop.
C13_MalformedArgumentsDegrade ==
    ending = "eof" =>
        LET inline == InlineCalls(Records)
        IN /\ pc = "done"
           /\ Positions("error") = {}
           /\ Len(ToolStartSeq) = Len(inline) + Len(deferred)
           /\ \A k \in DOMAIN deferred :
                 /\ ToolStartSeq[Len(inline) + k].name = deferred[k].name
                 /\ Malformed(deferred[k].arguments)
                       => ToolStartSeq[Len(inline) + k].input = {}
           /\ \A k \in DOMAIN inline :
                 /\ ToolStartSeq[k].name = inline[k].name
                 /\ ToolStartSeq[k].input = inline[k].arguments
           /\ yielded[Len(yielded) - 1].type = "message_delta"
           /\ yielded[Len(yielded)].type = "message_stop"

\* A malformed deferred tool call is followed by a well-formed one, after
\* a record with a malformed inline tool call.
C13_Witness ==
    /\ pc = "done"
    /\ deferred = <<ParserToolCall("g", ArgsBad), ParserToolCall("f", ArgsOk)>>
    /\ \E k \in DOMAIN Records : Records[k] = ContentEvent(<<"a", MarkerG, MarkerF>>)
    /\ ToolStartSeq[Len(ToolStartSeq) - 1].input = {}
    /\ ToolStartSeq[Len(ToolStartSeq)].input = {<<"q", 1>>}

\* The records the streaming translation has handled so far, and the
\* non-empty marker-free contents among them.
Handled == SubSeq(upstream, 1, Len(upstream) - Len(events))
RECURSIVE TextRecords(_)
TextRecords(recs) ==
    IF recs = <<>> THEN <<>>
    ELSE (IF PlainText(<<Head(recs)>>) # <<>> THEN <<Head(recs).data>> ELSE <<>>)
             \o TextRecords(Tail(recs))
DeltaSeq == SelectSeq(yielded, LAMBDA e : e.type = "content_block_delta")
TextStarts == { i \in DOMAIN yielded : IsTextStart(yielded[i]) }
\* The block stops that do not close a tool-use block.
TextStops ==
    { i \in Positions("content_block_stop") : i = 1 \/ ~IsToolStart(yielded[i - 1]) }
\* The starts of the tool-use blocks drained at end-of-stream.
DeferredStarts ==
    { i \in ToolStarts : Cardinality({ j \in ToolStarts : j >= i }) <= Len(deferred) }

\* C15: the streamed text block has one lifecycle: one text
\* content_block_start, at index 0 with empty text, directly before the
\* first delta; one content_block_delta at index 0 per non-empty
\* marker-free ContentRecord, carrying that record's text; and at the normal
\* end of input one content_block_stop at index 0 for the text block
\* exactly when text was accumulated, after the last delta and before the
\* deferred tool-use blocks.
C15_TextBlockLifecycle ==
    /\ Cardinality(TextStarts) = (IF DeltaSeq # <<>> THEN 1 ELSE 0)
    /\ \A p \in TextStarts :
          /\ yielded[p].index = 0
          /\ yielded[p].text = <<>>
          /\ yielded[p + 1].type = "content_block_delta"
          /\ \A d \in Positions("content_block_delta") : d > p
    /\ [k \in DOMAIN DeltaSeq |-> DeltaSeq[k].text] = TextRecords(Handled)
    /\ \A k \in DOMAIN DeltaSeq : DeltaSeq[k].index = 0
    /\ pc # "done" => TextStops = {}
    /\ pc = "done" =>
          /\ Cardinality(TextStops) = (IF PlainText(Records) # <<>> THEN 1 ELSE 0)
          /\ \A s \in TextStops :
                /\ yielded[s].index = 0
                /\ \A d \in Positions("content_block_delta") : d < s
                /\ \A t \in DeferredStarts : s < t

\* Two text records around a tool record, and deferred tool calls.
C15_Witness ==
    /\ pc = "done"
    /\ Len(DeltaSeq) = 2
    /\ DeltaSeq[1].text # DeltaSeq[2].text
    /\ InlineCalls(Records) # <<>>
    /\ deferred # <<>>
    /\ TextStops # {}

\* The usage of the last MetadataRecord of recs, 0 when there is none.
RECURSIVE LastUsage(_)
LastUsage(recs) ==
    IF recs = <<>> THEN [inputTokens |-> 0, outputTokens |-> 0]
    ELSE IF recs[Len(recs)].type = "metadata"
    THEN [inputTokens |-> recs[Len(recs)].inputTokens,
          outputTokens |-> recs[Len(recs)].outputTokens]
    ELSE LastUsage(SubSeq(recs, 1, Len(recs) - 1))

UsageReported ==
    /\ pc = "done" =>
          yielded[Len(yielded) - 1].output_tokens = LastUsage(Records).outputTokens
    /\ response.returned =>
          /\ response.input_tokens = LastUsage(Records).inputTokens
          /\ response.output_tokens = LastUsage(Records).outputTokens

\* C16: handling a MetadataRecord emits no event and changes only the token
\* counters; the output_tokens of the final message_delta and the usage of
\* the collected object are those of the last MetadataRecord received, 0
\* when none was received.
C16_MetadataOnlyCounters ==
    [][/\ (pc = "events" /\ Head(events).type = "metadata")
            => /\ input_tokens' = Head(events).inputTokens
               /\ output_tokens' = Head(events).outputTokens
               /\ UNCHANGED <<yielded, message_started, accumulated_text,
                              current_tool_index, tool_uses, stop_reason,
                              collectVars>>
       /\ UsageReported']_vars

\* Two different MetadataRecords were received, then the body ended.
C16_Witness ==
    /\ pc = "done"
    /\ response.returned
    /\ \E i, j \in DOMAIN Records :
          /\ i < j
          /\ Records[i] = MetadataEvent(5, 2)
          /\ Records[j] = MetadataEvent(3, 1)
          /\ \A k \in (j + 1)..Len(Records) : Records[k].type # "metadata"
    /\ yielded[Len(yielded) - 1].output_tokens = 1
    /\ response.input_tokens = 3

StartsBefore(i) == { j \in Positions("content_block_start") : j < i }
StopsBefore(i) == { j \in Positions("content_block_stop") : j < i }

\* C18: streamed content blocks never overlap: a content_block_start is
\* emitted only when every block started before it has received its
\* content_block_stop (so no inline tool-use block starts while the text
\* block is open), and no text delta is emitted after a tool-use block was
\* started and stopped since the text block started.
C18_BlocksNeverOverlap ==
    /\ \A i \in Positions("content_block_start") :
          Cardinality(StartsBefore(i)) = Cardinality(StopsBefore(i))
    /\ \A p \in TextStarts, d \in Positions("content_block_delta") :
          \A t \in ToolStarts : ~(p < t /\ t < d)

\* C19: within one translation no two tool-use blocks get the same counter
\* suffix in their synthetic identifier, in the stream (running tool index)
\* and in the collected content list (length of the list).
C19_ToolIdentifiersDistinct ==
    /\ \A i, j \in ToolStarts : i # j => yielded[i].id # yielded[j].id
    /\ \A i, j \in DOMAIN content_blocks :
          (i # j /\ IsToolBlock(content_blocks[i]) /\ IsToolBlock(content_blocks[j]))
              => content_blocks[i].id # content_blocks[j].id
    /\ response.returned => response.content = content_blocks

\* Inline and deferred tool-use blocks in the stream, several tool-use
\* blocks behind a text block in the collected list.
C19_Witness ==
    /\ pc = "done"
    /\ response.returned
    /\ Len(InlineCalls(Records)) >= 2
    /\ Len(deferred) >= 2
    /\ response.content[1].type = "text"
    /\ Len(response.content) >= 4

\* What a content block event of the stream shows of the record it derives
\* from: the text of a delta, the name of a tool-use block.
RECURSIVE SigOfRecords(_)
SigOfRecords(recs) ==
    IF recs = <<>> THEN <<>>
    ELSE LET r == Head(recs)
             calls == IF r.type = "content"
                      THEN parse_bracket_tool_calls(r.data) ELSE <<>>
         IN (IF calls # <<>>
             THEN [k \in DOMAIN calls |-> <<"tool_use", calls[k].name, <<>>>>]
             ELSE IF PlainText(<<r>>) # <<>> THEN <<<<"text", "", r.data>>>>
             ELSE <<>>)
                \o SigOfRecords(Tail(recs))

\* The same for the stream up to position i, the deferred blocks left out.
RECURSIVE SigOfStream(_)
SigOfStream(i) ==
    IF i = 0 THEN <<>>
    ELSE SigOfStream(i - 1)
            \o (IF yielded[i].type = "content_block_delta"
                THEN <<<<"text", "", yielded[i].text>>>>
                ELSE IF i \in ToolStarts \ DeferredStarts
                THEN <<<<"tool_use", yielded[i].name, <<>>>>>>
                ELSE <<>>)
StreamSig == SigOfStream(Len(yielded))

\* C17: the stream follows the arrival order and holds nothing back: the
\* events yielded so far are those of the records handled so far, record
\* by record in arrival order, and when the next chunk is read from the
\* transport the events of all records of the earlier chunks have been
\* yielded.
C17_ArrivalOrderNoHoldBack ==
    [][/\ StreamSig' = SigOfRecords(Handled')
       /\ chunks_read' # chunks_read
            => (events = <<>> /\ StreamSig = SigOfRecords(upstream))]_vars

\* Two chunks of records with text and tool calls were read and handled.
C17_Witness ==
    /\ chunks_read = 2
    /\ events = <<>>
    /\ Len(upstream) = 3
    /\ Len(StreamSig) >= 3
    /\ \E k \in 1..(Len(StreamSig) - 1) : StreamSig[k][1] # StreamSig[k + 1][1]

\* The object a collecting run with a debug_logger returns.
ObservedResponse == IF obs_c_pc = "done" THEN response ELSE NoResponse

\* C14: a debug_logger never affects the outcome: on the same input the
\* run with it yields the events the run without it yields, and returns the
\* object the run without it returns, whatever the logger does when called.
C14_ObserverNeverAffects ==
    /\ obs_yielded = yielded
    /\ obs_c_pc = c_pc
    /\ ObservedResponse = response
====
